---- MODULE Spec2Model ----
(***************************************************************************)
(* Lazy matrix march (fuzzy longest common subsequence): the engine of     *)
(* lmm.cpp and of the second translation unit (unnamed/part_000), with the *)
(* declarations of lmm.hpp (unnamed/part_001).                             *)
(*                                                                         *)
(* Numbers: a float f of the program is the integer f * Unit (two decimal  *)
(* digits, exact), so 1.f is Unit and the sentinel -1.f is NONE.  A metric *)
(* is kept in 1/Unit of that, which makes the tie-breaker 0.01 * score an  *)
(* integer.  Rounding of float arithmetic is not modelled.                 *)
(* A u32 is kept as its value; the one place a u32 could wrap, --outID in   *)
(* run(), is guarded there (a wrapped index ends the run in "undefined").  *)
(* A dlg_assert that evaluates to false is recorded in failed and the run  *)
(* goes on as the release build does.                                      *)
(***************************************************************************)
EXTENDS Integers, Sequences, FiniteSets, TLC

VARIABLES
    variant,          \* which translation unit runs: "lmm" or "part0"
    width,            \* width_
    height,           \* height_
    matcher,          \* matcher_: the caller's function, [i, j] -> value
    branchThreshold,  \* branchThreshold_
    matchMatrix,      \* matchMatrix_: flat cells 0 .. width*height-1, [eval, best]
    cands,            \* Candidate storage: node id -> [i, j, score]
    next,             \* Candidate::next, node id -> node id
    prev,             \* Candidate::prev, node id -> node id
    bestMatch,        \* bestMatch_
    bestRes,          \* bestRes_
    numEvals,         \* numEvals_
    numSteps,         \* numSteps_
    pc,               \* where run() is: "step", "walk", "done", "undefined"
    wi,               \* run(): i of the back-walk
    wj,               \* run(): j of the back-walk
    outID,            \* run(): outID
    buf,              \* run(): the buffer res.matches was allocated as
    res,              \* run(): the Result returned
    calls,            \* ghost: how often matcher_ was invoked per (i, j)
    accessed,         \* ghost: the positions match(i, j) was applied to
    lastPop,          \* ghost: the candidate the last step() popped, bestMatch_ then,
                      \*        and the cell match() delivered to that step()
    stamp,            \* ghost: node id -> the number of the insertCandidate call that linked it
    clock,            \* ghost: how many insertCandidate calls there were
    lastPrune,        \* ghost: the last step()'s call of prune: minScore, frontier before and after
    failed            \* ghost: the dlg_asserts that evaluated to false

vars == << variant, width, height, matcher, branchThreshold, matchMatrix, cands,
           next, prev, bestMatch, bestRes, numEvals, numSteps, pc, wi, wj, outID,
           buf, res, calls, accessed, lastPop, stamp, clock, lastPrune, failed >>

----------------------------------------------------------------------------
(* Numbers *)

Unit == 100
NONE == -Unit

Min(a, b) == IF a <= b THEN a ELSE b
Abs(a) == IF a < 0 THEN -a ELSE a

----------------------------------------------------------------------------
(* Bounds of the model and the inputs drawn *)

\* Inputs have width * height <= MaxCells.
MaxCells == 6

Variants == {"lmm", "part0"}
Vals == {0, Unit \div 2, Unit}
Thresholds == {0, Unit \div 2, Unit}
Dims == {d \in (1..MaxCells) \X (1..MaxCells) : d[1] * d[2] <= MaxCells}
Positions(w, h) == (0..(w - 1)) \X (0..(h - 1))

\* What a read outside the allocated matrix may find.
Garbage == {[eval |-> NONE, best |-> NONE],
            [eval |-> Unit, best |-> 0],
            [eval |-> 0, best |-> Unit]}
\* What a float that was never assigned may hold.
Indeterminate == {NONE, 0, Unit}

----------------------------------------------------------------------------
(* lmm.hpp *)

\* branchThreshold = 0.95
DefaultThreshold == 95

QUEUE == 1
FREE == 2
NULL == 0

EvalMatch == [eval |-> NONE, best |-> NONE]
Unwritten == [i |-> -1, j |-> -1, matchVal |-> NONE]

\* match(i, j): the flat index
matchIndex(i, j) == width * i + j
InMatrix(i, j) == matchIndex(i, j) < width * height
\* match(i, j): the cells the reference may denote
match(i, j) == IF InMatrix(i, j) THEN {matchMatrix[matchIndex(i, j) + 1]} ELSE Garbage

\* empty()
empty(e) == e.next[QUEUE] = QUEUE

----------------------------------------------------------------------------
(* list.hpp: intrusive circular doubly-linked list *)

unlink(e, n) ==
    LET p == e.prev[n]
        x == e.next[n]
        nx == [e.next EXCEPT ![p] = x]
        pv == [e.prev EXCEPT ![x] = p]
    IN [e EXCEPT !.next = [nx EXCEPT ![n] = NULL], !.prev = [pv EXCEPT ![n] = NULL]]

insertAfter(e, pos, n) ==
    LET x == e.next[pos]
        nx == [e.next EXCEPT ![pos] = n]
        pv == [e.prev EXCEPT ![x] = n]
    IN [e EXCEPT !.next = [nx EXCEPT ![n] = x], !.prev = [pv EXCEPT ![n] = pos]]

insertBefore(e, pos, n) == insertAfter(e, e.prev[pos], n)

----------------------------------------------------------------------------
(* lmm.cpp *)

maxPossibleScore(score, i, j) == score + Unit * Min(width - i, height - j)

metric(c) == Unit * maxPossibleScore(c.score, c.i, c.j) + c.score

\* insertPos that walks past the nodes of equal metric too
RECURSIVE insertPosAfterEqual(_, _, _)
insertPosAfterEqual(e, it, c) ==
    IF it # QUEUE /\ metric(e.cands[it]) >= metric(c)
    THEN insertPosAfterEqual(e, e.next[it], c)
    ELSE it

\* insertPos that never walks: the place in front of the head
insertPosHead(e, it, c) == it

RECURSIVE insertPos(_, _, _)
insertPos(e, it, c) ==
    IF it # QUEUE /\ metric(e.cands[it]) > metric(c)
    THEN insertPos(e, e.next[it], c)
    ELSE it

\* insertCandidate that looks for the place with the fields a reused node
\* still holds, and writes i, j, score afterwards
insertCandidateStale(e, i, j, score) ==
    LET reuse == e.next[FREE] # FREE
        cand == IF reuse THEN e.next[FREE] ELSE Len(e.cands) + 1
        c == [i |-> i, j |-> j, score |-> score]
        e1 == IF reuse
              THEN unlink(e, cand)
              ELSE [e EXCEPT !.cands = Append(@, c),
                             !.next = Append(@, NULL),
                             !.prev = Append(@, NULL),
                             !.stamp = Append(@, 0)]
        e2 == insertBefore(e1, insertPos(e1, e1.next[QUEUE], e1.cands[cand]), cand)
    IN [e2 EXCEPT !.cands[cand] = c, !.stamp[cand] = e.clock + 1, !.clock = @ + 1]

insertCandidate(e, i, j, score) ==
    LET reuse == e.next[FREE] # FREE
        cand == IF reuse THEN e.next[FREE] ELSE Len(e.cands) + 1
        c == [i |-> i, j |-> j, score |-> score]
        e1 == IF reuse
              THEN unlink(e, cand)
              ELSE [e EXCEPT !.cands = Append(@, c),
                             !.next = Append(@, NULL),
                             !.prev = Append(@, NULL),
                             !.stamp = Append(@, 0)]
        e2 == [e1 EXCEPT !.cands[cand] = c, !.stamp[cand] = e.clock + 1, !.clock = @ + 1]
    IN insertBefore(e2, insertPos(e2, e2.next[QUEUE], c), cand)

\* popCandidate that unlinks the head and does not put it on the free-list
popCandidateUnlinked(e) == unlink(e, e.next[QUEUE])

\* popCandidate that returns the head and leaves it linked
popCandidateKeep(e) == e

popCandidate(e) ==
    LET newFree == e.next[QUEUE]
    IN insertAfter(unlink(e, newFree), FREE, newFree)

addCandidate(e, score, i, j, addI, addJ) ==
    IF i + addI >= width \/ j + addJ >= height
    THEN IF score > e.bestMatch
         THEN [e EXCEPT !.bestMatch = score, !.bestRes = <<i, j>>]
         ELSE e
    ELSE IF maxPossibleScore(score, i + addI, j + addJ) > e.bestMatch
         THEN insertCandidate(e, i + addI, j + addJ, score)
         ELSE e

\* prune of lmm.cpp: from the tail, stop at the first node that stays
RECURSIVE pruneTail(_, _, _)
pruneTail(e, it, minScore) ==
    IF it # QUEUE /\ maxPossibleScore(e.cands[it].score, e.cands[it].i, e.cands[it].j) < minScore
    THEN pruneTail(insertAfter(unlink(e, it), FREE, it), e.prev[it], minScore)
    ELSE e

\* prune of part_000 (SLOW_BUT_CORRECT_IMPL): sweep from the tail
RECURSIVE pruneSweep(_, _, _)
pruneSweep(e, it, minScore) ==
    IF it = QUEUE
    THEN e
    ELSE LET c == e.cands[it]
             e1 == IF maxPossibleScore(c.score, c.i, c.j) < minScore
                   THEN insertAfter(unlink(e, it), FREE, it)
                   ELSE e
         IN IF c.score >= minScore THEN e1 ELSE pruneSweep(e1, e.prev[it], minScore)

\* prune that removes nothing
pruneNone(e, minScore) == e

\* prune(minScore) of lmm.cpp
pruneLmm(e, minScore) == pruneTail(e, e.prev[QUEUE], minScore)

\* prune(minScore) of part_000
prunePart0(e, minScore) == pruneSweep(e, e.prev[QUEUE], minScore)

\* The candidates of e's frontier from the node it to the tail.
RECURSIVE queueFrom(_, _)
queueFrom(e, it) ==
    IF it = QUEUE THEN << >> ELSE << e.cands[it] >> \o queueFrom(e, e.next[it])

\* What a step() that did not call prune leaves in lastPrune.
NoPrune == [minScore |-> NONE, before |-> << >>, after |-> << >>]

\* The engine's list and best-so-far fields as one record.
Engine == [cands |-> cands, next |-> next, prev |-> prev,
           bestMatch |-> bestMatch, bestRes |-> bestRes,
           stamp |-> stamp, clock |-> clock]

\* step() of lmm.cpp that stores m.best = newScore without comparing the two
stepLmmOverwrite(e, cand, m) ==
    IF m.best >= cand.score + Unit
    THEN [cell |-> m, eng |-> e, evaluated |-> FALSE, pruned |-> NoPrune]
    ELSE LET evaluated == m.eval = NONE
             ev == IF evaluated THEN matcher[cand.i, cand.j] ELSE m.eval
             newScore == cand.score + ev
             ea == addCandidate(e, newScore, cand.i, cand.j, 1, 1)
             e1 == IF ev > 0 THEN pruneLmm(ea, newScore) ELSE e
             pruned == IF ev > 0
                       THEN [minScore |-> newScore, before |-> queueFrom(ea, ea.next[QUEUE]),
                             after |-> queueFrom(e1, e1.next[QUEUE])]
                       ELSE NoPrune
             e2 == IF ev < branchThreshold
                   THEN addCandidate(addCandidate(e1, cand.score, cand.i, cand.j, 1, 0),
                                     cand.score, cand.i, cand.j, 0, 1)
                   ELSE e1
         IN [cell |-> [eval |-> ev, best |-> newScore], eng |-> e2,
             evaluated |-> evaluated, pruned |-> pruned]

\* step() of lmm.cpp past the pop: the cell after the step, the engine after
\* the step, and whether the matcher was called.  m is the cell match()
\* delivered.
stepLmm(e, cand, m) ==
    IF m.best >= cand.score + Unit
    THEN [cell |-> m, eng |-> e, evaluated |-> FALSE, pruned |-> NoPrune]
    ELSE LET evaluated == m.eval = NONE
             ev == IF evaluated THEN matcher[cand.i, cand.j] ELSE m.eval
             newScore == cand.score + ev
             ea == addCandidate(e, newScore, cand.i, cand.j, 1, 1)
             e1 == IF ev > 0 THEN pruneLmm(ea, newScore) ELSE e
             pruned == IF ev > 0
                       THEN [minScore |-> newScore, before |-> queueFrom(ea, ea.next[QUEUE]),
                             after |-> queueFrom(e1, e1.next[QUEUE])]
                       ELSE NoPrune
             e2 == IF ev < branchThreshold
                   THEN addCandidate(addCandidate(e1, cand.score, cand.i, cand.j, 1, 0),
                                     cand.score, cand.i, cand.j, 0, 1)
                   ELSE e1
         IN IF newScore > m.best
            THEN [cell |-> [eval |-> ev, best |-> newScore], eng |-> e2,
                  evaluated |-> evaluated, pruned |-> pruned]
            ELSE [cell |-> [m EXCEPT !.eval = ev], eng |-> e, evaluated |-> evaluated,
                  pruned |-> NoPrune]

\* step() of part_000 past the pop
stepPart0(e, cand, m) ==
    IF m.best >= cand.score
    THEN [cell |-> m, eng |-> e, evaluated |-> FALSE, pruned |-> NoPrune]
    ELSE LET evaluated == m.eval = NONE
             ev == IF evaluated THEN matcher[cand.i, cand.j] ELSE m.eval
             newScore == cand.score + ev
             ea == addCandidate(e, newScore, cand.i, cand.j, 1, 1)
             e1 == IF ev > 0 THEN prunePart0(ea, newScore) ELSE e
             pruned == IF ev > 0
                       THEN [minScore |-> newScore, before |-> queueFrom(ea, ea.next[QUEUE]),
                             after |-> queueFrom(e1, e1.next[QUEUE])]
                       ELSE NoPrune
             e2 == IF ev < branchThreshold
                   THEN addCandidate(addCandidate(e1, cand.score, cand.i, cand.j, 1, 0),
                                     cand.score, cand.i, cand.j, 0, 1)
                   ELSE e1
         IN [cell |-> [eval |-> ev, best |-> cand.score], eng |-> e2,
             evaluated |-> evaluated, pruned |-> pruned]

stepBody(e, cand, m) ==
    IF variant = "lmm" THEN stepLmm(e, cand, m) ELSE stepPart0(e, cand, m)

\* One call of step() that returns true.
Step ==
    /\ pc = "step"
    /\ ~empty(Engine)
    /\ LET cand == cands[next[QUEUE]]
           e0 == popCandidate(Engine)
       IN \E m \in match(cand.i, cand.j) :
            LET r == stepBody(e0, cand, m)
            IN /\ matchMatrix' = IF InMatrix(cand.i, cand.j)
                                 THEN [matchMatrix EXCEPT ![matchIndex(cand.i, cand.j) + 1] = r.cell]
                                 ELSE matchMatrix
               /\ cands' = r.eng.cands
               /\ next' = r.eng.next
               /\ prev' = r.eng.prev
               /\ bestMatch' = r.eng.bestMatch
               /\ bestRes' = r.eng.bestRes
               /\ stamp' = r.eng.stamp
               /\ clock' = r.eng.clock
               /\ numEvals' = IF r.evaluated THEN numEvals + 1 ELSE numEvals
               /\ calls' = IF r.evaluated
                           THEN [calls EXCEPT ![cand.i, cand.j] = @ + 1]
                           ELSE calls
               /\ accessed' = accessed \cup {<<cand.i, cand.j>>}
               /\ lastPop' = [i |-> cand.i, j |-> cand.j, score |-> cand.score,
                              bestMatch |-> bestMatch, cell |-> m]
               /\ lastPrune' = r.pruned
               /\ failed' = IF maxPossibleScore(cand.score, cand.i, cand.j) >= bestMatch
                            THEN failed
                            ELSE failed \cup {"step:maxPossibleScore"}
    /\ numSteps' = numSteps + 1
    /\ UNCHANGED << variant, width, height, matcher, branchThreshold, pc, wi, wj,
                    outID, buf, res >>

----------------------------------------------------------------------------
(* Construction *)

NoPop == [i |-> 0, j |-> 0, score |-> 0, bestMatch |-> NONE, cell |-> EvalMatch]
NoResult == [totalMatch |-> NONE, matches |-> << >>]

\* The engine before the seed candidate: both anchors point to themselves.
Anchors == [cands |-> << [i |-> 0, j |-> 0, score |-> 0], [i |-> 0, j |-> 0, score |-> 0] >>,
            next |-> << QUEUE, FREE >>,
            prev |-> << QUEUE, FREE >>,
            bestMatch |-> NONE,
            bestRes |-> << 0, 0 >>,
            stamp |-> << 0, 0 >>,
            clock |-> 0]

\* LazyMatrixMarch(width, height, alloc, matcher, branchThreshold).
\* The constructor of lmm.cpp shows neither the allocation of matchMatrix_
\* nor the anchors pointing to themselves; both are taken as part_000 has them.
Construct(v, w, h, f, t) ==
    /\ variant = v
    /\ width = w
    /\ height = h
    /\ matcher = f
    /\ branchThreshold = t
    /\ matchMatrix = [k \in 1..(w * h) |-> EvalMatch]
    /\ LET e == insertCandidate(Anchors, 0, 0, 0)
       IN /\ cands = e.cands
          /\ next = e.next
          /\ prev = e.prev
          /\ bestMatch = e.bestMatch
          /\ bestRes = e.bestRes
          /\ stamp = e.stamp
          /\ clock = e.clock
    /\ numEvals = 0
    /\ numSteps = 0
    /\ pc = "step"
    /\ wi = 0
    /\ wj = 0
    /\ outID = 0
    /\ buf = << >>
    /\ res = NoResult
    /\ calls = [p \in Positions(w, h) |-> 0]
    /\ accessed = {}
    /\ lastPop = NoPop
    /\ lastPrune = NoPrune
    /\ failed = {}

Init ==
    \E v \in Variants, d \in Dims, t \in Thresholds :
        \E f \in [Positions(d[1], d[2]) -> Vals] :
            Construct(v, d[1], d[2], f, t)

----------------------------------------------------------------------------
(* run() *)

maxMatches == Min(width, height)

\* Which asserts of a list of (condition, label) pairs are false.
Failing(checks) == {checks[k][2] : k \in {n \in DOMAIN checks : ~checks[n][1]}}

\* res.matches[index] = entry, on the buffer of maxMatches entries
writeMatch(b, index, entry) == [b EXCEPT ![index + 1] = entry]
InBuffer(index) == 0 <= index /\ index < maxMatches

\* run() of lmm.cpp from the end of the step loop to the back-walk loop;
\* res.totalMatch is not assigned (its value is drawn when res is returned).
gatherLmm ==
    [totalMatch |-> NONE,
     buf |-> [k \in 1..maxMatches |-> Unwritten],
     outID |-> maxMatches - 1,
     failed |-> Failing(<< <<bestMatch >= 0, "run:bestMatch>=0">> >>),
     undefined |-> FALSE]

\* gatherPart0 without the entry for the terminal cell
gatherPart0NoLast(lastMatch) ==
    [totalMatch |-> bestMatch,
     buf |-> [k \in 1..maxMatches |-> Unwritten],
     outID |-> maxMatches,
     failed |-> {},
     undefined |-> FALSE]

\* run() of part_000 from the end of the step loop to the back-walk loop;
\* lastMatch is the cell match(bestRes_) delivered.
gatherPart0(lastMatch) ==
    LET b == [k \in 1..maxMatches |-> Unwritten]
        emit == lastMatch.eval > 0
    IN [totalMatch |-> bestMatch,
        buf |-> IF emit /\ InBuffer(maxMatches - 1)
                THEN writeMatch(b, maxMatches - 1,
                                [i |-> bestRes[1], j |-> bestRes[2], matchVal |-> lastMatch.eval])
                ELSE b,
        outID |-> IF emit THEN maxMatches - 1 ELSE maxMatches,
        failed |-> Failing(<< <<bestMatch >= 0, "run:bestMatch>=0">>,
                              <<bestMatch >= lastMatch.best, "run:bestMatch>=lastMatch.best">>,
                              <<bestMatch - lastMatch.best <= Unit, "run:bestMatch-lastMatch.best<=1">> >>),
        undefined |-> emit /\ ~InBuffer(maxMatches - 1)]

\* step() returns false: run() leaves its loop and prepares the result.
Gather ==
    /\ pc = "step"
    /\ empty(Engine)
    /\ \E lastMatch \in IF variant = "lmm" THEN {EvalMatch} ELSE match(bestRes[1], bestRes[2]) :
          LET g == IF variant = "lmm" THEN gatherLmm ELSE gatherPart0(lastMatch)
          IN /\ res' = [totalMatch |-> g.totalMatch, matches |-> << >>]
             /\ buf' = g.buf
             /\ outID' = g.outID
             /\ failed' = failed \cup g.failed
             /\ pc' = IF g.undefined THEN "undefined" ELSE "walk"
    /\ accessed' = IF variant = "lmm" THEN accessed ELSE accessed \cup {bestRes}
    /\ wi' = bestRes[1]
    /\ wj' = bestRes[2]
    /\ UNCHANGED << variant, width, height, matcher, branchThreshold, matchMatrix,
                    cands, next, prev, bestMatch, bestRes, numEvals, numSteps, calls,
                    lastPop, stamp, clock, lastPrune >>

\* walkBody whose diagonal move emits (i, j) in place of (i - 1, j - 1)
walkBodyStale(i, j, score, up, left, diag) ==
    IF up.best = score.best
    THEN [i |-> i - 1, j |-> j, outID |-> outID, buf |-> buf, failed |-> {},
          undefined |-> FALSE, move |-> "up"]
    ELSE IF left.best = score.best
    THEN [i |-> i, j |-> j - 1, outID |-> outID, buf |-> buf, failed |-> {},
          undefined |-> FALSE, move |-> "left"]
    ELSE LET index == IF variant = "lmm" THEN outID ELSE outID - 1
             entry == [i |-> i, j |-> j, matchVal |-> diag.eval]
         IN [i |-> i - 1, j |-> j - 1, outID |-> outID - 1,
             buf |-> IF InBuffer(index) THEN writeMatch(buf, index, entry) ELSE buf,
             failed |-> {},
             undefined |-> ~InBuffer(index), move |-> "diag"]

\* One iteration of the back-walk loop at (i, j), given the cells the four
\* match() references delivered.  The write index is outID in lmm.cpp and
\* outID - 1 in part_000.
walkBody(i, j, score, up, left, diag) ==
    IF up.best = score.best
    THEN [i |-> i - 1, j |-> j, outID |-> outID, buf |-> buf, failed |-> {},
          undefined |-> FALSE, move |-> "up"]
    ELSE IF left.best = score.best
    THEN [i |-> i, j |-> j - 1, outID |-> outID, buf |-> buf, failed |-> {},
          undefined |-> FALSE, move |-> "left"]
    ELSE LET index == IF variant = "lmm" THEN outID ELSE outID - 1
             diff == score.best - diag.best
             entry == [i |-> i - 1, j |-> j - 1, matchVal |-> diag.eval]
             checks == << <<diag.best < score.best, "run:diag.best<score.best">>,
                          <<diag.eval > 0 /\ diag.eval <= Unit, "run:diag.eval">>,
                          <<IF variant = "lmm"
                            THEN diag.eval = diff
                            ELSE 1000 * Abs(diag.eval - diff) < Unit,
                            "run:diag.eval==score.best-diag.best">>,
                          <<IF variant = "lmm" THEN InBuffer(outID) ELSE outID # 0,
                            "run:outID">> >>
         IN [i |-> i - 1, j |-> j - 1, outID |-> outID - 1,
             buf |-> IF InBuffer(index) THEN writeMatch(buf, index, entry) ELSE buf,
             failed |-> Failing(checks),
             undefined |-> ~InBuffer(index), move |-> "diag"]

\* The positions an iteration at (i, j) applies match() to, by the branch taken.
walkReads(i, j, move) ==
    {<<i, j>>, <<i - 1, j>>}
        \cup (IF move = "up" THEN {} ELSE {<<i, j - 1>>})
        \cup (IF move = "diag" THEN {<<i - 1, j - 1>>} ELSE {})

\* One iteration of while(i > 0 && j > 0).
Walk ==
    /\ pc = "walk"
    /\ wi > 0 /\ wj > 0
    /\ \E score \in match(wi, wj), up \in match(wi - 1, wj),
          left \in match(wi, wj - 1), diag \in match(wi - 1, wj - 1) :
          LET w == walkBody(wi, wj, score, up, left, diag)
          IN /\ wi' = w.i
             /\ wj' = w.j
             /\ outID' = w.outID
             /\ buf' = w.buf
             /\ failed' = failed \cup w.failed
             /\ accessed' = accessed \cup walkReads(wi, wj, w.move)
             /\ pc' = IF w.undefined THEN "undefined" ELSE "walk"
    /\ UNCHANGED << variant, width, height, matcher, branchThreshold, matchMatrix,
                    cands, next, prev, bestMatch, bestRes, numEvals, numSteps, res,
                    calls, lastPop, stamp, clock, lastPrune >>

\* span::last(count)
last(b, count) == SubSeq(b, Len(b) - count + 1, Len(b))

\* The loop ends: res.matches = res.matches.last(maxMatches - outID); return res.
\* lmm.cpp never assigned res.totalMatch: the caller reads an indeterminate value.
Finish ==
    /\ pc = "walk"
    /\ ~(wi > 0 /\ wj > 0)
    /\ \E total \in IF variant = "lmm" THEN Indeterminate ELSE {res.totalMatch} :
         LET count == maxMatches - outID
         IN IF 0 <= count /\ count <= maxMatches
            THEN /\ res' = [totalMatch |-> total, matches |-> last(buf, count)]
                 /\ pc' = "done"
            ELSE /\ res' = res
                 /\ pc' = "undefined"
    /\ UNCHANGED << variant, width, height, matcher, branchThreshold, matchMatrix,
                    cands, next, prev, bestMatch, bestRes, numEvals, numSteps, wi, wj,
                    outID, buf, calls, accessed, lastPop, stamp, clock, lastPrune,
                    failed >>

Next == Step \/ Gather \/ Walk \/ Finish

Spec == Init /\ [][Next]_vars

\* The inputs with height >= width: every match(i, j) of a run stays inside
\* the allocated matrix, so nothing a run reads is indeterminate but the
\* totalMatch lmm.cpp never assigns.
InitTall ==
    \E v \in Variants, d \in {x \in Dims : x[2] >= x[1]}, t \in Thresholds :
        \E f \in [Positions(d[1], d[2]) -> Vals] :
            Construct(v, d[1], d[2], f, t)

SpecTall == InitTall /\ [][Next]_vars

----------------------------------------------------------------------------
(* The scenarios of the specification's section 8 *)

Only(w, h, ones, v) == [p \in Positions(w, h) |-> IF p \in ones THEN v ELSE 0]

Scenarios ==
    { [w |-> 3, h |-> 3, t |-> Unit, f |-> Only(3, 3, {<<0, 0>>, <<1, 1>>, <<2, 2>>}, Unit)],
      [w |-> 3, h |-> 3, t |-> DefaultThreshold, f |-> Only(3, 3, {}, Unit)],
      [w |-> 4, h |-> 4, t |-> Unit, f |-> Only(4, 4, {<<0, 1>>, <<1, 2>>, <<2, 3>>}, Unit)],
      [w |-> 3, h |-> 3, t |-> Unit,
       f |-> Only(3, 3, {<<0, 0>>, <<1, 1>>, <<2, 2>>}, Unit \div 2)],
      [w |-> 2, h |-> 2, t |-> Unit,
       f |-> (<<0, 0>> :> 90) @@ (<<1, 1>> :> 90) @@ (<<0, 1>> :> 80) @@ (<<1, 0>> :> 80)],
      [w |-> 2, h |-> 5, t |-> DefaultThreshold, f |-> Only(2, 5, {<<0, 2>>, <<1, 4>>}, Unit)] }

InitScenario ==
    \E v \in Variants, s \in Scenarios : Construct(v, s.w, s.h, s.f, s.t)

SpecScenario == InitScenario /\ [][Next]_vars

----------------------------------------------------------------------------
(* What the claims speak of *)

\* The step loop of run() has ended.
Completed == pc \in {"walk", "done"}

Max3(a, b, c) == IF a >= b /\ a >= c THEN a ELSE IF b >= c THEN b ELSE c

\* The largest sum of matcher values along a path of cells that is strictly
\* increasing in i and in j and starts at or after (i, j).
RECURSIVE BestPath(_, _)
BestPath(i, j) ==
    IF i >= width \/ j >= height
    THEN 0
    ELSE Max3(matcher[i, j] + BestPath(i + 1, j + 1), BestPath(i + 1, j), BestPath(i, j + 1))

\* The matcher returns only 0 or 1.
Binary == \A p \in DOMAIN matcher : matcher[p] \in {0, Unit}

\* The length of the longest common subsequence of a 0/1 match matrix.
RECURSIVE LCSLength(_, _)
LCSLength(i, j) ==
    IF i >= width \/ j >= height
    THEN 0
    ELSE Max3((IF matcher[i, j] = Unit THEN 1 ELSE 0) + LCSLength(i + 1, j + 1),
              LCSLength(i + 1, j), LCSLength(i, j + 1))

RECURSIVE SumMatchVal(_)
SumMatchVal(ms) == IF ms = << >> THEN 0 ELSE Head(ms).matchVal + SumMatchVal(Tail(ms))

StrictlyIncreasing(ms) ==
    \A k \in 1..(Len(ms) - 1) : ms[k].i < ms[k + 1].i /\ ms[k].j < ms[k + 1].j

\* The frontier from the node it to the tail, as node ids.
RECURSIVE QueueFrom(_)
QueueFrom(it) == IF it = QUEUE THEN << >> ELSE << it >> \o QueueFrom(next[it])
Frontier == QueueFrom(next[QUEUE])

RECURSIVE Pow4(_)
Pow4(n) == IF n <= 0 THEN 1 ELSE 4 * Pow4(n - 1)

\* A candidate at (i, j) has at most three successors, each nearer to the
\* matrix's far corner: weight 4^(cells left to the corner) makes the
\* successors of a candidate weigh less than the candidate.
Weight(c) == Pow4((width - c.i) + (height - c.j))
RECURSIVE SumWeight(_)
SumWeight(ids) == IF ids = << >> THEN 0 ELSE Weight(cands[Head(ids)]) + SumWeight(Tail(ids))
Rank == SumWeight(Frontier)

InRange(ms) ==
    \A k \in 1..Len(ms) : /\ 0 <= ms[k].i /\ ms[k].i < width
                          /\ 0 <= ms[k].j /\ ms[k].j < height

----------------------------------------------------------------------------
(* Claims *)

\* C1: with branchThreshold = 1.0, once the engine has run to completion
\* bestMatch_ is at least the score of every path strictly increasing in i
\* and j.  (Fails where match(i, j) makes two positions share a cell, C10.)
C1_Optimal == (Completed /\ branchThreshold = Unit) => bestMatch >= BestPath(0, 0)

\* C2: for a matcher into {0, 1} and branchThreshold = 1.0, the completed
\* engine's bestMatch_ equals the LCS length of the match matrix.
\* (Fails where match(i, j) makes two positions share a cell, C10.)
C2_EqualsLCS ==
    (Completed /\ branchThreshold = Unit /\ Binary) => bestMatch = Unit * LCSLength(0, 0)

\* C3: the Result run() of part_000 returns has matches whose matchVal sum
\* to totalMatch (within 1e-3).
C3_MatchesSumToTotal ==
    (pc = "done" /\ variant = "part0")
        => 1000 * Abs(SumMatchVal(res.matches) - res.totalMatch) <= Unit

\* C4: the matches run() of part_000 returns are strictly increasing in i
\* and in j, front to back, and every entry has i < W and j < H.
C4_MatchesIncreasing ==
    (pc = "done" /\ variant = "part0")
        => StrictlyIncreasing(res.matches) /\ InRange(res.matches)

\* C4 witness: a run of part_000 that returned at least two matches.
C4_Witness == pc = "done" /\ variant = "part0" /\ Len(res.matches) >= 2

\* C5: the matcher is invoked at most once per position (i, j), and
\* numEvals() never exceeds W * H.  (Fails where match(i, j) reads outside
\* the matrix, C10.)
C5_EvaluatedOnce ==
    /\ \A p \in DOMAIN calls : calls[p] <= 1
    /\ numEvals <= width * height

\* C6: run() terminates.  Every call of step() that returns true lowers the
\* rank of the frontier, so the calls that returned true number at most
\* 4^(W + H) less the rank left; with the frontier empty step() returns
\* false and run() goes on to its return.
C6_Terminates ==
    /\ pc = "step" => numSteps + Rank <= Pow4(width + height)
    /\ pc # "step" => empty(Engine) /\ numSteps <= Pow4(width + height)

\* C6 witness: step() has returned false after five or more calls that
\* returned true.
C6_Witness == Completed /\ numSteps >= 5

\* Scenario f of section 8: W = 2, H = 5, matcher(0,2) = matcher(1,4) = 1.
ScenarioF ==
    /\ width = 2
    /\ height = 5
    /\ branchThreshold = DefaultThreshold
    /\ matcher = Only(2, 5, {<<0, 2>>, <<1, 4>>}, Unit)

\* C7: on scenario f, run() of part_000 returns totalMatch = 2 and
\* matches = [(0,2,1), (1,4,1)], and none of its asserts is false.
C7_ScenarioF ==
    (ScenarioF /\ variant = "part0" /\ pc = "done")
        => /\ res.totalMatch = 2 * Unit
           /\ res.matches = << [i |-> 0, j |-> 2, matchVal |-> Unit],
                               [i |-> 1, j |-> 4, matchVal |-> Unit] >>
           /\ failed = {}

\* C7 witness: run() of part_000 has returned on scenario f.
C7_Witness == ScenarioF /\ variant = "part0" /\ pc = "done" /\ numEvals > 0

\* C8: in both run() implementations the returned totalMatch equals
\* bestMatch_ as it is when the step loop ends.  (lmm.cpp never assigns it.)
C8_TotalIsBestMatch == pc = "done" => res.totalMatch = bestMatch

\* C9: the span run() of lmm.cpp returns holds exactly the entries written
\* during the back-walk, in forward order; for a matcher that is 0
\* everywhere it is empty.
C9_SpanIsWritten ==
    (pc = "done" /\ variant = "lmm")
        => /\ \A k \in 1..Len(res.matches) : res.matches[k] # Unwritten
           /\ Len(res.matches) = Cardinality({k \in 1..Len(buf) : buf[k] # Unwritten})
           /\ StrictlyIncreasing(res.matches)
           /\ ((\A p \in DOMAIN matcher : matcher[p] = 0) => res.matches = << >>)

\* C10: for all i < W, j < H the flat index width * i + j is below W * H, and
\* two distinct positions never address the same cell; so it is for every
\* position step() and the back-walk of run() apply match() to.
C10_IndexInjective ==
    \A p \in accessed :
        /\ p \in Positions(width, height)
        /\ InMatrix(p[1], p[2])
        /\ \A q \in accessed :
               p # q => matchIndex(p[1], p[2]) # matchIndex(q[1], q[2])

\* The three asserts run() states at a diagonal move of the back-walk.
DiagonalAsserts == {"run:diag.best<score.best", "run:diag.eval",
                    "run:diag.eval==score.best-diag.best"}

\* C11: in lmm.cpp (step() stores m.best = cand.score + m.eval), whenever the
\* back-walk of run() takes the diagonal branch at (i, j):
\* match(i-1,j-1).best < match(i,j).best, match(i-1,j-1).eval is in (0, 1]
\* and equals match(i,j).best - match(i-1,j-1).best; that is, none of the
\* three asserts of lmm.cpp:119-121 is false.
C11_DiagonalStep == variant = "lmm" => failed \cap DiagonalAsserts = {}

\* The asserts of run() in part_000 on the terminal cell, on a diagonal move
\* and on the write index.
RunAssertsPart0 == DiagonalAsserts \cup {"run:bestMatch>=lastMatch.best",
                                         "run:bestMatch-lastMatch.best<=1",
                                         "run:outID"}

MatchValsInRange(ms) == \A k \in 1..Len(ms) : ms[k].matchVal > 0 /\ ms[k].matchVal <= Unit

\* C12: in part_000, for every W, H >= 1, matcher into [0, 1] and
\* branchThreshold <= 1, no assert of run() on the terminal cell, on a
\* diagonal move or on the write index is false, and every matchVal run()
\* returns is in (0, 1].
C12_RunAsserts ==
    variant = "part0"
        => /\ failed \cap RunAssertsPart0 = {}
           /\ pc # "undefined"
           /\ pc = "done" => MatchValsInRange(res.matches)

UpperBound(c) == maxPossibleScore(c.score, c.i, c.j)

NonIncreasing(cs) == \A k \in 1..(Len(cs) - 1) : metric(cs[k]) >= metric(cs[k + 1])

\* C16: after construction and after every step() the frontier, read from
\* head to tail, is non-increasing in metric, so the head popCandidate
\* returns has the largest metric; so is the frontier before and after
\* the prune call inside a step().
C16_FrontierSorted ==
    /\ NonIncreasing(queueFrom(Engine, next[QUEUE]))
    /\ NonIncreasing(lastPrune.before)
    /\ NonIncreasing(lastPrune.after)

\* C16 witness: after several steps the frontier holds three or more
\* candidates, not all of one metric, and every node allocated so far but
\* one is in use (the inserts took their nodes from the free-list).
C16_Witness ==
    /\ numSteps >= 3
    /\ Len(Frontier) >= 3
    /\ metric(cands[Frontier[1]]) > metric(cands[Frontier[Len(Frontier)]])
    /\ Len(cands) = Len(Frontier) + 3

\* Pairs of frontier places, the first nearer to the head, whose candidates
\* have equal metric.
EqualMetricPairs ==
    {p \in (1..Len(Frontier)) \X (1..Len(Frontier)) :
        p[1] < p[2] /\ metric(cands[Frontier[p[1]]]) = metric(cands[Frontier[p[2]]])}

\* C17 as stated: a candidate inserted with the metric of candidates already
\* in the frontier is placed after all of them, so among equal metrics the
\* earlier-inserted candidate is nearer to the head and is popped first.
C17_EqualAfter == \A p \in EqualMetricPairs : stamp[Frontier[p[1]]] < stamp[Frontier[p[2]]]

\* C17, amended: insertCandidate stops at the first node whose metric is not
\* larger, so the new candidate is placed before all candidates of equal
\* metric: among equal metrics the later-inserted candidate is nearer to
\* the head and is popped first.
C17_EqualBefore == \A p \in EqualMetricPairs : stamp[Frontier[p[1]]] > stamp[Frontier[p[2]]]

\* C17 witness: the frontier holds two candidates of equal metric.
C17_Witness == EqualMetricPairs # {}

\* C18: for every W, H >= 1, matcher into [0, 1] and branchThreshold <= 1
\* (thresholds <= 0 too), when the frontier has become empty a terminal
\* path has been recorded: bestMatch_ >= 0, and the assert bestMatch_ >= 0
\* of run() is not false.
C18_TerminalRecorded ==
    /\ (pc = "step" /\ empty(Engine)) => bestMatch >= 0
    /\ "run:bestMatch>=0" \notin failed

\* run()'s step loop as a function: the values of (bestMatch_, bestRes_) the
\* step() variant v can end with from the engine e and the matrix mm.
RECURSIVE Outcomes(_, _, _)
Outcomes(v, e, mm) ==
    IF empty(e)
    THEN {<< e.bestMatch, e.bestRes >>}
    ELSE LET cand == e.cands[e.next[QUEUE]]
             e0 == popCandidate(e)
             inside == InMatrix(cand.i, cand.j)
             k == matchIndex(cand.i, cand.j) + 1
         IN UNION { LET r == IF v = "lmm" THEN stepLmm(e0, cand, m) ELSE stepPart0(e0, cand, m)
                    IN Outcomes(v, r.eng, IF inside THEN [mm EXCEPT ![k] = r.cell] ELSE mm)
                    : m \in IF inside THEN {mm[k]} ELSE Garbage }

OtherVariant == IF variant = "lmm" THEN "part0" ELSE "lmm"

\* C19: for the same W, H, matcher and branchThreshold the step() of lmm.cpp
\* and the step() of part_000 end with the same bestMatch_ and the same
\* bestRes_: when this run's frontier is empty, the other variant's run on
\* the same input can end with this run's (bestMatch_, bestRes_) only.
C19_VariantsAgree ==
    (pc = "step" /\ empty(Engine))
        => Outcomes(OtherVariant, insertCandidate(Anchors, 0, 0, 0),
                    [k \in 1..(width * height) |-> EvalMatch])
               = {<< bestMatch, bestRes >>}

\* The nodes reached from anchor by next until anchor comes again; NULL
\* marks a walk that left the nodes or did not come back within fuel nodes.
RECURSIVE ring(_, _, _)
ring(anchor, it, fuel) ==
    IF it = anchor
    THEN << >>
    ELSE IF fuel = 0 \/ it \notin DOMAIN next
         THEN << NULL >>
         ELSE << it >> \o ring(anchor, next[it], fuel - 1)

Members(list) == {list[k] : k \in 1..Len(list)}

\* A well-formed circular doubly-linked list around anchor.
WellFormedList(anchor) ==
    LET r == ring(anchor, next[anchor], Len(cands))
    IN /\ NULL \notin Members(r)
       /\ Cardinality(Members(r)) = Len(r)
       /\ \A n \in Members(r) \cup {anchor} :
              /\ next[n] \in DOMAIN prev
              /\ prev[n] \in DOMAIN next
              /\ prev[next[n]] = n
              /\ next[prev[n]] = n

\* Every allocated node is in the frontier queue or in the free-list, in
\* one of them only, and neither list holds the other's anchor.
NodesPartitioned ==
    LET q == Members(ring(QUEUE, next[QUEUE], Len(cands)))
        f == Members(ring(FREE, next[FREE], Len(cands)))
    IN /\ Len(next) = Len(cands) /\ Len(prev) = Len(cands)
       /\ q \cap f = {}
       /\ q \cup f = (1..Len(cands)) \ {QUEUE, FREE}

\* A step() that allocated a node found the free-list empty when it did, and
\* nothing is put on the free-list after the last prune: the free-list is
\* empty when that step() returns.
AllocatesOnlyWhenFreeEmpty == Len(cands') > Len(cands) => next'[FREE] = FREE

\* C20: after construction and after every step() every candidate node ever
\* allocated is linked in exactly one of the frontier queue and the
\* free-list, both are well-formed circular doubly-linked lists around their
\* anchors, and a node is allocated only when the free-list is empty.
C20_ListsWellFormed ==
    /\ [](WellFormedList(QUEUE) /\ WellFormedList(FREE) /\ NodesPartitioned)
    /\ [][AllocatesOnlyWhenFreeEmpty]_vars

\* C20 witness: nodes were allocated after the first one, and both lists
\* hold nodes.
C20_Witness == Len(cands) >= 5 /\ next[QUEUE] # QUEUE /\ next[FREE] # FREE

\* From one state to the next no cell's best decreases, and no cell's eval
\* that holds a matcher result changes.
CellsMonotone ==
    \A k \in DOMAIN matchMatrix :
        /\ matchMatrix'[k].best >= matchMatrix[k].best
        /\ matchMatrix[k].eval # NONE => matchMatrix'[k].eval = matchMatrix[k].eval

\* C21: across any sequence of step() calls, for every cell of matchMatrix_
\* the field best never decreases, and the field eval, once it holds a
\* matcher result (is no longer -1), never changes again.
C21_CellsMonotone == [][CellsMonotone]_vars

\* C21 witness: the last step() came to a cell whose eval already held a
\* matcher result, with a score that, added to that eval, is below the
\* cell's best; the step left the cell as it was.
C21_Witness ==
    /\ numSteps > 0
    /\ InMatrix(lastPop.i, lastPop.j)
    /\ lastPop.cell.eval # NONE
    /\ lastPop.score + lastPop.cell.eval < lastPop.cell.best
    /\ matchMatrix[matchIndex(lastPop.i, lastPop.j) + 1] = lastPop.cell

====
